---- MODULE Spec2Model ----
(***************************************************************************)
(* A model of the ZNews crawler: the link collector (link_collector.py),   *)
(* the article crawler (article_crawler.py) and the helpers of utils.py.   *)
(*                                                                         *)
(* Text is modelled as a sequence of one-character strings, so that        *)
(* splitting, stripping, joining and number parsing are computed the way   *)
(* the Python code computes them.                                          *)
(***************************************************************************)
EXTENDS Integers, Sequences, FiniteSets, TLC

VARIABLES
    prog,          \* which entry point runs: "collect", "crawl", or "util"
    pc,            \* position of main() in its run
    driver,        \* self.driver: "none", "open" (session live), "quit"
    exc,           \* the exception propagating out of the with-body, or "none"
    method,        \* collect_and_save's method argument
    max_links,     \* collect_and_save's max_links argument
    feed,          \* the items the category page can show, in page order
    shown,         \* how many of them are in the DOM now (0: no page yet)
    height,        \* document.body.scrollHeight of the page now
    links,         \* the local `links` set of the collection method
    last_height,   \* the local `last_height` of collect_links_scroll_based
    scroll_count,  \* the local `scroll_count`
    result,        \* what the collection method returned as <<set>> (<<>> before)
    linksFile,     \* the links file on disk: <<content>>, or <<>> when absent
    start_count,   \* crawl_from_file's start_count argument
    max_articles,  \* crawl_from_file's max_articles argument
    crawlLinks,    \* the local `links` list of crawl_from_file
    idx,           \* index of the for loop's next link in crawlLinks
    count,         \* the local `count`
    successful,    \* the local `successful`
    written,       \* the article files written, in order: [name, data]
    attempted,     \* the links handed to crawl_article, in order
    dom,           \* the article page the crawler's browser shows (NoPage before)
    fn,            \* SpecUtil: the helper applied
    arg,           \* SpecUtil: its input
    out            \* SpecUtil: its output (NoResult before the call)

vars == <<prog, pc, driver, exc, method, max_links, feed, shown, height, links,
          last_height, scroll_count, result, linksFile, start_count,
          max_articles, crawlLinks, idx, count, successful, written,
          attempted, dom, fn, arg, out>>

runVars == <<prog, pc, driver, exc>>
collectVars == <<method, max_links, feed, shown, height, links, last_height,
                 scroll_count, result>>
crawlVars == <<start_count, max_articles, crawlLinks, idx, count, successful,
               written, attempted, dom>>
utilVars == <<fn, arg, out>>

NoResult == "NoResult"
NoFile == <<>>
NoPage == "NoPage"

(***************************************************************************)
(* Bounds of the model.                                                    *)
(***************************************************************************)
MaxItems == 2        \* every page of at most this many list items is tried
MaxHeight == 2       \* page heights range over 1..MaxHeight
MaxLinksArg == 3     \* max_links ranges over 0..MaxLinksArg
MaxStart == 1        \* start_count ranges over 0..MaxStart
MaxArticlesArg == 3  \* max_articles ranges over 0..MaxArticlesArg
MaxUrlLen == 2       \* SpecUtil: URLs of at most this many characters
MaxListLen == 2      \* SpecUtil: link lists of at most this many URLs
MaxFileLen == 4      \* SpecUtil: links files of at most this many characters
MaxParas == 2        \* SpecUtil: bodies of at most this many paragraphs

(***************************************************************************)
(* Program constants (config/config.py).                                   *)
(***************************************************************************)
MAX_SCROLLS == 50
TARGET_YEAR == 2024
MAX_ARTICLES == 200
START_COUNT == 0

(***************************************************************************)
(* Text helpers: Python's str methods on sequences of characters.          *)
(***************************************************************************)
Whitespace == {" ", "\t", "\n", "\r"}
Digits == {"0", "1", "2", "3", "4", "5", "6", "7", "8", "9"}

DigitVal(c) ==
    CASE c = "0" -> 0 [] c = "1" -> 1 [] c = "2" -> 2 [] c = "3" -> 3
      [] c = "4" -> 4 [] c = "5" -> 5 [] c = "6" -> 6 [] c = "7" -> 7
      [] c = "8" -> 8 [] c = "9" -> 9

RECURSIVE LStrip(_)
LStrip(s) ==
    IF s # <<>> /\ Head(s) \in Whitespace THEN LStrip(Tail(s)) ELSE s

RECURSIVE RStrip(_)
RStrip(s) ==
    IF s # <<>> /\ s[Len(s)] \in Whitespace
    THEN RStrip(SubSeq(s, 1, Len(s) - 1))
    ELSE s

\* str.strip()
Strip(s) == RStrip(LStrip(s))

\* str.split(sep) for a one-character separator: always at least one part
RECURSIVE SplitAcc(_, _, _)
SplitAcc(s, sep, cur) ==
    IF s = <<>> THEN <<cur>>
    ELSE IF Head(s) = sep THEN <<cur>> \o SplitAcc(Tail(s), sep, <<>>)
    ELSE SplitAcc(Tail(s), sep, Append(cur, Head(s)))

Split(s, sep) == SplitAcc(s, sep, <<>>)

\* sep.join(parts)
RECURSIVE Join(_, _)
Join(sep, parts) ==
    IF parts = <<>> THEN <<>>
    ELSE IF Len(parts) = 1 THEN parts[1]
    ELSE parts[1] \o sep \o Join(sep, Tail(parts))

RECURSIVE Flatten(_)
Flatten(ss) == IF ss = <<>> THEN <<>> ELSE Head(ss) \o Flatten(Tail(ss))

Range(f) == {f[i] : i \in DOMAIN f}

RECURSIVE SeqsUpTo(_, _)
SeqsUpTo(S, n) ==
    IF n = 0 THEN {<<>>}
    ELSE LET shorter == SeqsUpTo(S, n - 1)
         IN  shorter \cup {Append(q, x) : q \in shorter, x \in S}

(***************************************************************************)
(* Python's int(str) and datetime(year, month, day).                       *)
(***************************************************************************)
CIntMax == 2^30 + (2^30 - 1)    \* largest C int, datetime's argument type

StripUnderscores(s) == SelectSeq(s, LAMBDA c : c # "_")

\* single underscores may separate digits: no leading, trailing or double one
RECURSIVE WellGrouped(_)
WellGrouped(s) ==
    \/ Len(s) = 1 /\ s[1] \in Digits
    \/ /\ Len(s) > 1
       /\ s[1] \in Digits
       /\ IF s[2] = "_"
          THEN Len(s) > 2 /\ WellGrouped(SubSeq(s, 3, Len(s)))
          ELSE WellGrouped(Tail(s))

\* the value of a digit string.  Python's integers are unbounded and only
\* "fits a C int or not" is observed later, so a value above CIntMax is kept
\* as big; edge marks the one such value, CIntMax + 1, whose negation fits
RECURSIVE DigitsValue(_, _)
DigitsValue(ds, acc) ==
    IF ds = <<>> THEN acc
    ELSE IF acc.big
    THEN DigitsValue(Tail(ds), [big |-> TRUE, edge |-> FALSE, val |-> CIntMax])
    ELSE IF acc.val > (CIntMax - DigitVal(Head(ds))) \div 10
    THEN DigitsValue(Tail(ds),
                     [big |-> TRUE,
                      edge |-> acc.val = CIntMax \div 10 /\ Head(ds) = "8",
                      val |-> CIntMax])
    ELSE DigitsValue(Tail(ds),
                     [big |-> FALSE, edge |-> FALSE,
                      val |-> acc.val * 10 + DigitVal(Head(ds))])

IntValue(negative, v) ==
    IF negative /\ v.edge
    THEN [ok |-> TRUE, big |-> FALSE, val |-> (0 - CIntMax) - 1]
    ELSE [ok |-> TRUE, big |-> v.big,
          val |-> IF negative THEN 0 - v.val ELSE v.val]

IntOfBody(negative, body) ==
    IF body = <<>> \/ ~WellGrouped(body)
    THEN [ok |-> FALSE, big |-> FALSE, val |-> 0]
    ELSE IntValue(negative,
                  DigitsValue(StripUnderscores(body),
                              [big |-> FALSE, edge |-> FALSE, val |-> 0]))

IntOfStripped(t) ==
    IF t # <<>> /\ Head(t) \in {"+", "-"}
    THEN IntOfBody(Head(t) = "-", Tail(t))
    ELSE IntOfBody(FALSE, t)

\* int(s): ok = FALSE stands for ValueError
PyInt(s) == IntOfStripped(Strip(s))

IsLeap(y) == y % 4 = 0 /\ (y % 100 # 0 \/ y % 400 = 0)

DaysInMonth(y, m) ==
    IF m = 2 THEN (IF IsLeap(y) THEN 29 ELSE 28)
    ELSE IF m \in {4, 6, 9, 11} THEN 30 ELSE 31

\* datetime's range checks (MINYEAR = 1, MAXYEAR = 9999)
ValidYMD(y, m, d) ==
    /\ y >= 1 /\ y <= 9999
    /\ m >= 1 /\ m <= 12
    /\ d >= 1 /\ d <= DaysInMonth(y, m)

NoDate == [kind |-> "none", year |-> 0, month |-> 0, day |-> 0]
DateOf(y, m, d) == [kind |-> "date", year |-> y, month |-> m, day |-> d]
Raised(e) == [kind |-> e, year |-> 0, month |-> 0, day |-> 0]

\* datetime(int(year), int(month), int(day)) inside the try block
DateFromInts(day, month, year) ==
    IF ~(year.ok /\ month.ok /\ day.ok) THEN NoDate
    ELSE IF year.big \/ month.big \/ day.big THEN Raised("OverflowError")
    ELSE IF ValidYMD(year.val, month.val, day.val)
    THEN DateOf(year.val, month.val, day.val)
    ELSE NoDate

DateFromParts(parts) ==
    IF Len(parts) # 3 THEN NoDate
    ELSE DateFromInts(PyInt(parts[1]), PyInt(parts[2]), PyInt(parts[3]))

\* utils.parse_date_from_text: only ValueError and IndexError are caught
parse_date_from_text(date_text) == DateFromParts(Split(date_text, "/"))

(***************************************************************************)
(* datetime.strptime for the two formats parse_iso_date uses.  A numeric   *)
(* directive is a regular expression of one or two digits (four for %Y);   *)
(* every directive here is followed by a literal, by a sign or by the end  *)
(* of the text, so the match is decided by the digits that are there.      *)
(***************************************************************************)
At(s, i) == IF i >= 1 /\ i <= Len(s) THEN s[i] ELSE "EOT"

NoField == [len |-> 0, val |-> 0]

\* %Y: exactly four digits
FieldY(s, i) ==
    IF \A k \in 0..3 : At(s, i + k) \in Digits
    THEN [len |-> 4,
          val |-> DigitVal(s[i]) * 1000 + DigitVal(s[i + 1]) * 100
                  + DigitVal(s[i + 2]) * 10 + DigitVal(s[i + 3])]
    ELSE NoField

Field2Of(a, b, lo, hi, padded) ==
    IF a \in Digits /\ b \in Digits
    THEN IF DigitVal(a) * 10 + DigitVal(b) \in lo..hi
         THEN [len |-> 2, val |-> DigitVal(a) * 10 + DigitVal(b)]
         ELSE NoField
    ELSE IF a \in Digits
    THEN IF DigitVal(a) >= lo THEN [len |-> 1, val |-> DigitVal(a)]
         ELSE NoField
    ELSE IF padded /\ a = " " /\ b \in Digits /\ DigitVal(b) >= 1
    THEN [len |-> 2, val |-> DigitVal(b)]
    ELSE NoField

\* a directive of one or two digits whose value lies in lo..hi; with
\* padded, a leading blank before one digit is accepted too (%d)
Field2(s, i, lo, hi, padded) == Field2Of(At(s, i), At(s, i + 1), lo, hi, padded)

NoMatch == [ok |-> FALSE, year |-> 0, month |-> 0, day |-> 0, next |-> 0]

YMDFields(s, y, m, d) ==
    IF /\ y.len = 4 /\ At(s, 5) = "-"
       /\ m.len > 0 /\ At(s, 6 + m.len) = "-"
       /\ d.len > 0
    THEN [ok |-> TRUE, year |-> y.val, month |-> m.val, day |-> d.val,
          next |-> 6 + m.len + 1 + d.len]
    ELSE NoMatch

YMDAfterMonth(s, y, m) ==
    YMDFields(s, y, m, Field2(s, 6 + m.len + 1, 1, 31, TRUE))

\* the date part '%Y-%m-%d' from position 1: the fields, and where it ends
MatchYMD(s) == YMDAfterMonth(s, FieldY(s, 1), Field2(s, 6, 1, 12, FALSE))

\* two digits, the first one at most 5 ([0-5]\d)
IsMinutes(s, i) ==
    At(s, i) \in {"0", "1", "2", "3", "4", "5"} /\ At(s, i + 1) \in Digits

ZoneMinutes(s, colon, j) ==
    /\ IsMinutes(s, j)
    /\ \/ Len(s) = j + 1
       \/ /\ colon => At(s, j + 2) = ":"
          /\ IsMinutes(s, IF colon THEN j + 3 ELSE j + 2)
          /\ Len(s) = (IF colon THEN j + 3 ELSE j + 2) + 1

\* %z at position i up to the end of the text: Z, or a sign, two digits of
\* hours, minutes and optional seconds, with colons before both or before
\* neither; the offset must be less than 24 hours (datetime.timezone)
MatchZone(s, i) ==
    \/ At(s, i) = "Z" /\ Len(s) = i
    \/ /\ At(s, i) \in {"+", "-"}
       /\ At(s, i + 1) \in Digits /\ At(s, i + 2) \in Digits
       /\ DigitVal(s[i + 1]) * 10 + DigitVal(s[i + 2]) < 24
       /\ IF At(s, i + 3) = ":" THEN ZoneMinutes(s, TRUE, i + 4)
          ELSE ZoneMinutes(s, FALSE, i + 3)

SecondsThenZone(s, k, se) ==
    se.len > 0 /\ se.val <= 59 /\ MatchZone(s, k + se.len)

MinutesThenRest(s, j, mi) ==
    /\ mi.len > 0 /\ At(s, j + mi.len) = ":"
    /\ SecondsThenZone(s, j + mi.len + 1,
                       Field2(s, j + mi.len + 1, 0, 61, FALSE))

HoursThenRest(s, i, h) ==
    /\ h.len > 0 /\ At(s, i + h.len) = ":"
    /\ MinutesThenRest(s, i + h.len + 1,
                       Field2(s, i + h.len + 1, 0, 59, FALSE))

\* the rest of '%Y-%m-%dT%H:%M:%S%z' from the T at position i
MatchTimeZone(s, i) ==
    /\ At(s, i) \in {"T", "t"}
    /\ HoursThenRest(s, i + 1, Field2(s, i + 1, 0, 23, FALSE))

IsoResult(date_str, ymd) ==
    IF /\ ymd.ok
       /\ ValidYMD(ymd.year, ymd.month, ymd.day)
       /\ \/ MatchTimeZone(date_str, ymd.next)
          \/ Len(date_str) = ymd.next - 1
    THEN DateOf(ymd.year, ymd.month, ymd.day)
    ELSE NoDate

\* utils.parse_iso_date: the full format first, the date alone second;
\* a ValueError of strptime is NoDate
parse_iso_date(date_str) == IsoResult(date_str, MatchYMD(date_str))

(***************************************************************************)
(* The links file (utils.py).                                              *)
(***************************************************************************)
\* save_links_to_file writing f.write(link): the line terminator forgotten
save_links_no_newline(ls) == Flatten(ls)

\* utils.save_links_to_file: f.write(f"{link}\n") for each link, in order
RECURSIVE save_links_to_file(_)
save_links_to_file(ls) ==
    IF ls = <<>> THEN <<>>
    ELSE Head(ls) \o <<"\n">> \o save_links_to_file(Tail(ls))

\* open(filepath, 'r'): text mode reads "\r\n" and "\r" as "\n"
RECURSIVE UniversalNewlines(_)
UniversalNewlines(s) ==
    IF s = <<>> THEN <<>>
    ELSE IF Head(s) = "\r"
    THEN IF Len(s) > 1 /\ s[2] = "\n"
         THEN <<"\n">> \o UniversalNewlines(SubSeq(s, 3, Len(s)))
         ELSE <<"\n">> \o UniversalNewlines(Tail(s))
    ELSE <<Head(s)>> \o UniversalNewlines(Tail(s))

\* f.readlines(): each line keeps its "\n"; no line for an empty remainder
RECURSIVE ReadLinesAcc(_, _)
ReadLinesAcc(s, cur) ==
    IF s = <<>> THEN (IF cur = <<>> THEN <<>> ELSE <<cur>>)
    ELSE IF Head(s) = "\n"
    THEN <<Append(cur, "\n")>> \o ReadLinesAcc(Tail(s), <<>>)
    ELSE ReadLinesAcc(Tail(s), Append(cur, Head(s)))

ReadLines(s) == ReadLinesAcc(UniversalNewlines(s), <<>>)

\* [line.strip() for line in lines if line.strip()]
RECURSIVE StripNonBlank(_)
StripNonBlank(lines) ==
    IF lines = <<>> THEN <<>>
    ELSE IF Strip(Head(lines)) # <<>>
    THEN <<Strip(Head(lines))>> \o StripNonBlank(Tail(lines))
    ELSE StripNonBlank(Tail(lines))

\* utils.read_links_from_file, on the content of an existing file
read_links_from_file(content) == StripNonBlank(ReadLines(content))

(***************************************************************************)
(* ArticleCrawler.get_article_content.  A page is a record: summary holds  *)
(* the text of the summary element, <<text>>, or is <<>> when the lookup   *)
(* raises NoSuchElementException; paragraphs are the texts of the body's   *)
(* direct <p> children in document order; parasRaise tells whether reading *)
(* them raises (a stale element, a lost session).                          *)
(***************************************************************************)
\* [p.text for p in paragraphs if p.text.strip()]
RECURSIVE NonBlankTexts(_)
NonBlankTexts(ps) ==
    IF ps = <<>> THEN <<>>
    ELSE IF Strip(Head(ps)) # <<>>
    THEN <<Head(ps)>> \o NonBlankTexts(Tail(ps))
    ELSE NonBlankTexts(Tail(ps))

\* find_element(By.CLASS_NAME, "the-article-summary").text, or "" when
\* the element is not found
SummaryText(page) == IF page.summary = <<>> THEN <<>> ELSE page.summary[1]

\* [summary_text] if summary_text else []
SummaryLine(summary_text) ==
    IF summary_text # <<>> THEN <<summary_text>> ELSE <<>>

\* get_article_content without the `if p.text.strip()` filter
get_article_content_keep_blank(page) ==
    IF page.parasRaise THEN SummaryText(page)
    ELSE Join(<<"\n">>, SummaryLine(SummaryText(page)) \o page.paragraphs)

get_article_content(page) ==
    IF page.parasRaise THEN SummaryText(page)
    ELSE Join(<<"\n">>, SummaryLine(SummaryText(page))
                            \o NonBlankTexts(page.paragraphs))

(***************************************************************************)
(* The category page.  A list item is a record: time holds the datetime    *)
(* attribute of its <time> element, date the text of its date element,     *)
(* href the href of its link; each is <<value>>, or <<>> when the element  *)
(* lookup raises NoSuchElementException.                                   *)
(***************************************************************************)
NoYear == 0    \* check_article_year's None: a parsed year is at least 1

\* lines 66-74: the datetime attribute of the <time> element
IsoLookup(item) ==
    IF item.time # <<>> /\ item.time[1] # <<>>
    THEN parse_iso_date(item.time[1]) ELSE NoDate

DateTextResult(date_text) ==
    IF date_text # <<>> THEN parse_date_from_text(date_text) ELSE NoDate

\* lines 77-85: the stripped text of the date element
DateLookup(item) ==
    IF item.date # <<>> THEN DateTextResult(Strip(item.date[1])) ELSE NoDate

FirstDate(iso, item) == IF iso.kind = "date" THEN iso ELSE DateLookup(item)

\* check_article_year's two attempts, without its outer `except Exception`
YearLookup(item) == FirstDate(IsoLookup(item), item)

Unguarded(found) ==
    [raise |-> IF found.kind \in {"none", "date"} THEN "none" ELSE found.kind,
     year |-> IF found.kind = "date" THEN found.year ELSE NoYear]

Guarded(found) ==
    [raise |-> "none",
     year |-> IF found.kind = "date" THEN found.year ELSE NoYear]

\* check_article_year with the outer handler left out
check_article_year_unguarded(item) == Unguarded(YearLookup(item))

\* LinkCollector.check_article_year: any exception is logged and gives None
check_article_year(item) == Guarded(YearLookup(item))

Reverse(q) == [i \in 1..Len(q) |-> q[Len(q) + 1 - i]]

\* the state of a for loop over list items: the links so far, whether the
\* loop body ended the loop (a return, a break), and an exception that was
\* raised in it
LoopState(ls, returned, raise) ==
    [links |-> ls, returned |-> returned, raise |-> raise]

\* the links after `if link: links.add(link)` on the item's link element
WithLink(ls, article) ==
    IF article.href # <<>> /\ article.href[1] # <<>>
    THEN ls \cup {article.href[1]} ELSE ls

\* the last statement of both loop bodies: `if len(links) >= max_links`
CapCheck(ls, maxl) == LoopState(ls, Cardinality(ls) >= maxl, "none")

\* collect_links_scroll_based, lines 123-146: the body of the for loop, on
\* one item and its year; a `continue` leaves the loop state as it is
ScrollBody(article, checked, ls, target, maxl) ==
    IF checked.raise # "none" THEN LoopState(ls, FALSE, checked.raise)
    ELSE IF checked.year # NoYear /\ checked.year > target
    THEN LoopState(ls, FALSE, "none")
    ELSE IF checked.year # NoYear /\ checked.year = target
    THEN IF article.href = <<>> THEN LoopState(ls, FALSE, "none")
         ELSE CapCheck(WithLink(ls, article), maxl)
    ELSE IF checked.year # NoYear /\ checked.year < target
    THEN LoopState(ls, TRUE, "none")
    ELSE CapCheck(ls, maxl)

\* collect_links_article_based, lines 192-205: the body of the for loop
ArticleBody(article, checked, ls, target, maxl) ==
    IF checked.raise # "none" THEN LoopState(ls, FALSE, checked.raise)
    ELSE IF checked.year = target
    THEN IF article.href = <<>> THEN LoopState(ls, FALSE, "none")
         ELSE CapCheck(WithLink(ls, article), maxl)
    ELSE CapCheck(ls, maxl)

LoopBody(article, checked, ls, target, maxl, m) ==
    IF m = "scroll" THEN ScrollBody(article, checked, ls, target, maxl)
    ELSE ArticleBody(article, checked, ls, target, maxl)

\* a for loop over items: the body runs on each item in turn until it ends
\* the loop or raises
RECURSIVE ForEach(_, _, _, _, _)
ForEach(items, state, target, maxl, m) ==
    IF items = <<>> \/ state.returned \/ state.raise # "none" THEN state
    ELSE ForEach(Tail(items),
                 LoopBody(Head(items), check_article_year(Head(items)),
                          state.links, target, maxl, m),
                 target, maxl, m)

\* for article in reversed(articles): ...
ScrollFor(articles, ls, target, maxl) ==
    ForEach(Reverse(articles), LoopState(ls, FALSE, "none"), target, maxl,
            "scroll")

\* for article in articles: ...
ArticleFor(articles, ls, target, maxl) ==
    ForEach(articles, LoopState(ls, FALSE, "none"), target, maxl, "article")

(***************************************************************************)
(* The pages a collection run is tried on.                                 *)
(***************************************************************************)
IsoStamp(y) == y \o <<"-", "0", "1", "-", "1", "5", "T", "1", "0", ":", "0",
                      "0", ":", "0", "0", "+", "0", "7", "0", "0">>

Item(t, d, h) == [time |-> t, date |-> d, href |-> h]

UrlA == <<"u", "a">>
UrlB == <<"u", "b">>
UrlC == <<"u", "c">>
UrlD == <<"u", "d">>
UrlE == <<"u", "e">>

\* next year's article, dated by a full timestamp
Future == Item(<<IsoStamp(<<"2", "0", "2", "5">>)>>, <<>>, <<UrlE>>)
\* two articles of the target year: a timestamp; a padded DD/MM/YYYY text
CurA == Item(<<IsoStamp(<<"2", "0", "2", "4">>)>>, <<>>, <<UrlA>>)
CurB == Item(<<>>, <<<<" ", "1", "5", "/", "0", "1", "/", "2", "0", "2",
                      "4">>>>, <<UrlB>>)
\* last year's article, dated by a date-only attribute
Old == Item(<<<<"2", "0", "2", "3", "-", "1", "2", "-", "3", "1">>>>, <<>>,
            <<UrlC>>)
\* an item whose date cannot be parsed
Undated == Item(<<<<"x">>>>, <<<<"1", "5", "/", "1", "3", "/", "2", "0", "2",
                             "4">>>>, <<UrlD>>)
\* a target-year article without a link element, one with an empty href
CurNoLink == Item(<<>>, <<<<"0", "1", "/", "0", "2", "/", "2", "0", "2",
                          "4">>>>, <<>>)
CurEmptyHref == Item(<<IsoStamp(<<"2", "0", "2", "4">>)>>, <<>>, <<<<>>>>)
\* an item whose date text makes datetime() raise OverflowError
Overflowing == Item(<<<<>>>>, <<<<"1", "5", "/", "0", "1", "/", "2", "1", "4",
                                "7", "4", "8", "3", "6", "4", "8">>>>,
                    <<UrlD>>)
\* a target-year article that comes after the older one on the page
CurC == Item(<<<<"2", "0", "2", "4", "-", "0", "3", "-", "0", "1">>>>, <<>>,
             <<UrlD>>)

\* the items every page up to MaxItems long is built from
ItemKinds == {Future, CurA, Old}

\* the page of the specification's example, alone and followed by more
ExamplePage == <<Future, CurA, CurB, Old>>

Feeds ==
    SeqsUpTo(ItemKinds, MaxItems)
    \cup {ExamplePage, ExamplePage \o <<CurC>>,
          <<CurNoLink, CurA>>, <<CurEmptyHref, CurB>>, <<Overflowing, CurB>>,
          <<Undated, CurA, CurA, CurB>>}

Visible == SubSeq(feed, 1, shown)

\* what the browser does to the page on window.scrollTo: more of the feed
\* may load, and the height may become any height
PageAfterScroll(s, h) ==
    /\ s \in shown..Len(feed)
    /\ h \in 1..MaxHeight
    /\ shown' = s
    /\ height' = h

\* a list made from a set that holds one of its elements twice
OrderingsWithRepeat(S) ==
    {q \in [1..Cardinality(S) + 1 -> S] : \A u \in S : \E i \in DOMAIN q : q[i] = u}

\* list(links): the elements of the set, each once, in some order
Orderings(S) ==
    {q \in [1..Cardinality(S) -> S] : \A i, j \in DOMAIN q : i # j => q[i] # q[j]}

(***************************************************************************)
(* main() of link_collector.py and of article_crawler.py: the with block.  *)
(***************************************************************************)
\* __enter__: create_driver gives a session, or raises before the body runs
Enter ==
    /\ prog \in {"collect", "crawl"} /\ pc = "start"
    /\ \/ driver' = "open" /\ pc' = "body" /\ exc' = exc
       \/ driver' = driver /\ pc' = "done" /\ exc' = "create_driver"
    /\ UNCHANGED <<prog, linksFile>>
    /\ UNCHANGED collectVars
    /\ UNCHANGED crawlVars
    /\ UNCHANGED utilVars

\* __exit__ that quits only after a body that raised nothing
ExitOnSuccessOnly ==
    /\ prog \in {"collect", "crawl"} /\ pc = "exit"
    /\ driver' = IF driver = "open" /\ exc = "none" THEN "quit" ELSE driver
    /\ pc' = "done"
    /\ UNCHANGED <<prog, exc, linksFile>>
    /\ UNCHANGED collectVars
    /\ UNCHANGED crawlVars
    /\ UNCHANGED utilVars

\* __exit__: quits the driver and lets the body's exception propagate
Exit ==
    /\ prog \in {"collect", "crawl"} /\ pc = "exit"
    /\ driver' = IF driver # "none" THEN "quit" ELSE driver
    /\ pc' = "done"
    /\ UNCHANGED <<prog, exc, linksFile>>
    /\ UNCHANGED collectVars
    /\ UNCHANGED crawlVars
    /\ UNCHANGED utilVars

\* an exception no handler of the method catches leaves the with body
Propagate(e) ==
    /\ exc' = e
    /\ pc' = "exit"

(***************************************************************************)
(* LinkCollector.                                                          *)
(***************************************************************************)
\* the while condition of the method in use
LoopCond(m, sc, ls, maxl) ==
    IF m = "scroll" THEN sc < MAX_SCROLLS
    ELSE sc < MAX_SCROLLS /\ Cardinality(ls) < maxl

\* collect_and_save, lines 234-239, on the set the method returned: a set
\* that is not empty is written as list(links), in some order, unless the
\* write fails
SaveLinks(ls) ==
    \/ /\ ls # {}
       /\ \E order \in Orderings(ls) :
            linksFile' = <<save_links_to_file(order)>>
       /\ pc' = "exit" /\ exc' = exc
    \/ /\ ls # {}
       /\ Propagate("file_io")
       /\ linksFile' = linksFile
    \/ /\ ls = {}
       /\ pc' = "exit" /\ exc' = exc
       /\ linksFile' = linksFile

\* the method returns ls to collect_and_save, which saves it; the method's
\* counters end with it
ReturnLinks(ls) ==
    /\ result' = <<ls>>
    /\ links' = ls
    /\ scroll_count' = 0
    /\ last_height' = 0
    /\ SaveLinks(ls)

\* the method raises e: nothing is returned, nothing saved
RaiseInMethod(e) ==
    /\ Propagate(e)
    /\ scroll_count' = 0
    /\ last_height' = 0
    /\ UNCHANGED <<links, result, linksFile>>

\* the loop goes on to its next iteration with ls, sc and lh, or its
\* condition ends it
NextIteration(ls, sc, lh) ==
    IF LoopCond(method, sc, ls, max_links)
    THEN /\ pc' = "loop"
         /\ links' = ls /\ scroll_count' = sc /\ last_height' = lh
         /\ UNCHANGED <<result, exc, linksFile>>
    ELSE ReturnLinks(ls)

\* collect_links_*: driver.get(url) loads the page, with some of its items
\* and some height; the first height is read, the set is empty
CollectBegin ==
    /\ prog = "collect" /\ pc = "body"
    /\ \/ \E s \in 0..Len(feed), h \in 1..MaxHeight :
            /\ PageAfterScroll(s, h)
            /\ NextIteration({}, 0, IF method = "scroll" THEN h ELSE 0)
       \/ /\ RaiseInMethod("page_load")
          /\ UNCHANGED <<shown, height>>
    /\ UNCHANGED <<prog, driver, method, max_links, feed>>
    /\ UNCHANGED crawlVars
    /\ UNCHANGED utilVars

\* lines 151-161: scroll down, measure the height, stop when it is the same
ScrollAndMeasure(ls) ==
    \E s \in 0..Len(feed), new_height \in 1..MaxHeight :
      /\ PageAfterScroll(s, new_height)
      /\ IF new_height = last_height THEN ReturnLinks(ls)
         ELSE NextIteration(ls, scroll_count + 1, new_height)

\* what the iteration does once the for loop has ended in state for
AfterScrollFor(for) ==
    IF for.raise # "none"
    THEN RaiseInMethod(for.raise) /\ UNCHANGED <<shown, height>>
    ELSE IF for.returned
    THEN ReturnLinks(for.links) /\ UNCHANGED <<shown, height>>
    ELSE ScrollAndMeasure(for.links)

\* one iteration of collect_links_scroll_based's while loop.  The items are
\* looked up under the list container, so a page without the container
\* (NoSuchElementException, caught at line 148) is a page that shows no item
ScrollIteration ==
    /\ prog = "collect" /\ pc = "loop" /\ method = "scroll"
    /\ \/ AfterScrollFor(ScrollFor(Visible, links, TARGET_YEAR, max_links))
       \/ /\ RaiseInMethod("element_lookup")
          /\ UNCHANGED <<shown, height>>
    /\ UNCHANGED <<prog, driver, method, max_links, feed>>
    /\ UNCHANGED crawlVars
    /\ UNCHANGED utilVars

\* scrolling down without counting the iteration
ScrollWithoutCount(ls) ==
    \E s \in 0..Len(feed), h \in 1..MaxHeight :
      /\ PageAfterScroll(s, h)
      /\ NextIteration(ls, scroll_count, last_height)

\* lines 207-210: scroll down and count, whatever the page does
ScrollAndCount(ls) ==
    \E s \in 0..Len(feed), h \in 1..MaxHeight :
      /\ PageAfterScroll(s, h)
      /\ NextIteration(ls, scroll_count + 1, last_height)

AfterArticleFor(for) ==
    IF for.raise # "none"
    THEN RaiseInMethod(for.raise) /\ UNCHANGED <<shown, height>>
    ELSE ScrollAndCount(for.links)

\* one iteration of collect_links_article_based's while loop
ArticleIteration ==
    /\ prog = "collect" /\ pc = "loop" /\ method = "article"
    /\ \/ AfterArticleFor(ArticleFor(Visible, links, TARGET_YEAR, max_links))
       \/ /\ RaiseInMethod("element_lookup")
          /\ UNCHANGED <<shown, height>>
    /\ UNCHANGED <<prog, driver, method, max_links, feed>>
    /\ UNCHANGED crawlVars
    /\ UNCHANGED utilVars

(***************************************************************************)
(* ArticleCrawler.  An article page is a record: load tells whether        *)
(* driver.get succeeds, title is <<text>> or <<>> (no title element), body *)
(* whether the body element is there, pictures the photo blocks of the     *)
(* body, each with the src of its images and its caption text.             *)
(***************************************************************************)
\* the src values that are not empty
RECURSIVE NonEmpty(_)
NonEmpty(srcs) ==
    IF srcs = <<>> THEN <<>>
    ELSE IF Head(srcs) # <<>> THEN <<Head(srcs)>> \o NonEmpty(Tail(srcs))
    ELSE NonEmpty(Tail(srcs))

\* pic_cap.append((", ".join(links), caption)) when the block has links
PictureEntry(found, caption) ==
    IF found # <<>>
    THEN <<[url |-> Join(<<",", " ">>, found), caption |-> Strip(caption)]>>
    ELSE <<>>

\* ArticleCrawler.get_article_images: one pair per block that has an image
RECURSIVE get_article_images(_)
get_article_images(pictures) ==
    IF pictures = <<>> THEN <<>>
    ELSE PictureEntry(NonEmpty(Head(pictures).srcs), Head(pictures).caption)
             \o get_article_images(Tail(pictures))

\* crawl_article returning a record whatever the page lacks
crawl_article_lenient(url, page) ==
    <<[url |-> url,
       title |-> IF page.title = <<>> THEN <<>> ELSE page.title[1],
       content |-> get_article_content(page),
       images |-> get_article_images(page.pictures)]>>

\* ArticleCrawler.crawl_article: <<article_data>>, or <<>> for None
crawl_article(url, page) ==
    IF page.load # "ok" THEN <<>>
    ELSE IF page.title = <<>> THEN <<>>
    ELSE IF ~page.body THEN <<>>
    ELSE <<[url |-> url,
            title |-> page.title[1],
            content |-> get_article_content(page),
            images |-> get_article_images(page.pictures)]>>

ArticlePage(l, t, b, s, ps, r, pics) ==
    [load |-> l, title |-> t, body |-> b, summary |-> s, paragraphs |-> ps,
     parasRaise |-> r, pictures |-> pics]

Photo == [srcs |-> <<<<"i", "1">>, <<>>, <<"i", "2">>>>,
          caption |-> <<" ", "c", "a", "p", " ">>]

GoodPage ==
    ArticlePage("ok", <<<<"T">>>>, TRUE, <<<<"s">>>>,
                <<<<"p">>, <<" ">>, <<"q">>>>, FALSE, <<Photo>>)
PlainPage ==
    ArticlePage("ok", <<<<>>>>, TRUE, <<>>, <<<<"p">>>>, TRUE, <<>>)
NoTitlePage ==
    ArticlePage("ok", <<>>, TRUE, <<<<"s">>>>, <<<<"p">>>>, FALSE, <<>>)
NoBodyPage ==
    ArticlePage("ok", <<<<"T">>>>, FALSE, <<>>, <<>>, FALSE, <<>>)
BrokenPage ==
    ArticlePage("error", <<<<"T">>>>, TRUE, <<>>, <<<<"p">>>>, FALSE, <<>>)

ArticlePages == {GoodPage, PlainPage, NoTitlePage, NoBodyPage, BrokenPage}

\* the links files a crawl run is tried on: up to five links, one of them
\* with blank lines and padding, and a path where no file is
UrlPool == <<UrlA, UrlB, UrlC, UrlD, UrlE>>

CrawlFiles ==
    {<<save_links_to_file(SubSeq(UrlPool, 1, n))>> : n \in 0..Len(UrlPool)}
    \cup {<<<<"\n">> \o UrlA \o <<" ", "\n", " ", "\n">> \o UrlB>>, NoFile}

\* crawl_from_file, lines 218-225: the links are read, the counters set
CrawlBegin ==
    /\ prog = "crawl" /\ pc = "body"
    /\ IF linksFile = NoFile
       THEN /\ Propagate("file_io")
            /\ UNCHANGED <<crawlLinks, idx, count, successful>>
       ELSE \/ /\ crawlLinks' = read_links_from_file(linksFile[1])
               /\ idx' = 1
               /\ count' = start_count
               /\ successful' = 0
               /\ pc' = "crawl" /\ exc' = exc
            \/ /\ Propagate("file_io")
               /\ UNCHANGED <<crawlLinks, idx, count, successful>>
    /\ UNCHANGED <<prog, driver, linksFile, start_count, max_articles,
                   written, attempted, dom>>
    /\ UNCHANGED collectVars
    /\ UNCHANGED utilVars

\* lines 235-239: the record is saved under the name f"{count}.json" (the
\* name is modelled by its number) when save_article succeeds; count moves
\* on either way.  No record: nothing is saved, count stays
SaveRecord(article_data, saved) ==
    IF article_data # <<>>
    THEN /\ count' = count + 1
         /\ IF saved
            THEN /\ written' = Append(written, [name |-> count,
                                                data |-> article_data[1]])
                 /\ successful' = successful + 1
            ELSE UNCHANGED <<written, successful>>
    ELSE /\ ~saved
         /\ UNCHANGED <<count, written, successful>>

\* one iteration of the for loop that passes the limit check: the browser
\* loads the link's page, crawl_article extracts the record, and the record
\* is saved
CrawlArticle ==
    /\ prog = "crawl" /\ pc = "crawl"
    /\ idx <= Len(crawlLinks)
    /\ count < max_articles
    /\ \E page \in ArticlePages, saved \in BOOLEAN :
         /\ dom' = page
         /\ attempted' = Append(attempted, crawlLinks[idx])
         /\ idx' = idx + 1
         /\ SaveRecord(crawl_article(crawlLinks[idx], page), saved)
    /\ UNCHANGED <<prog, pc, driver, exc, linksFile, start_count,
                   max_articles, crawlLinks>>
    /\ UNCHANGED collectVars
    /\ UNCHANGED utilVars

\* the for loop ends: the limit is reached (break) or the links are used up
CrawlFinish ==
    /\ prog = "crawl" /\ pc = "crawl"
    /\ idx > Len(crawlLinks) \/ count >= max_articles
    /\ pc' = "exit"
    /\ UNCHANGED <<prog, driver, exc, linksFile>>
    /\ UNCHANGED collectVars
    /\ UNCHANGED crawlVars
    /\ UNCHANGED utilVars

(***************************************************************************)
(* Spec: one run of either entry point.                                    *)
(***************************************************************************)
Init ==
    /\ prog \in {"collect", "crawl"}
    /\ pc = "start" /\ driver = "none" /\ exc = "none"
    /\ links = {} /\ last_height = 0 /\ scroll_count = 0 /\ result = <<>>
    /\ crawlLinks = <<>> /\ idx = 1 /\ count = 0 /\ successful = 0
    /\ written = <<>> /\ attempted = <<>> /\ dom = NoPage
    /\ fn = "none" /\ arg = <<>> /\ out = NoResult
    /\ IF prog = "collect"
       THEN /\ method \in {"scroll", "article"}
            /\ max_links \in 0..MaxLinksArg
            /\ feed \in Feeds
            /\ shown = 0
            /\ height = 1
            /\ linksFile = NoFile
            /\ start_count = START_COUNT /\ max_articles = 0
       ELSE /\ method = "scroll" /\ max_links = 0 /\ feed = <<>>
            /\ height = 1
            /\ shown = 0
            /\ linksFile \in CrawlFiles
            /\ start_count \in 0..MaxStart
            /\ max_articles \in 0..MaxArticlesArg

Next ==
    \/ Enter
    \/ CollectBegin
    \/ ScrollIteration
    \/ ArticleIteration
    \/ CrawlBegin
    \/ CrawlArticle
    \/ CrawlFinish
    \/ Exit

Spec == Init /\ [][Next]_vars

(***************************************************************************)
(* SpecUtil: the helpers applied to inputs drawn from bounded sets.        *)
(***************************************************************************)
UrlChars == {"a", " ", "\n"}
UrlSamples == SeqsUpTo(UrlChars, MaxUrlLen)
LinkLists == SeqsUpTo(UrlSamples, MaxListLen)

FileChars == {"a", " ", "\n", "\r"}
FileContents == SeqsUpTo(FileChars, MaxFileLen)

SummarySamples == {<<>>, <<<<>>>>, <<<<"s">>>>, <<<<" ">>>>,
                   <<<<"s", " ", "t">>>>}
ParaTexts == {<<>>, <<" ">>, <<"p">>, <<"q", " ">>, <<"p", "\n", "q">>}
ContentPages ==
    [summary : SummarySamples, paragraphs : SeqsUpTo(ParaTexts, MaxParas),
     parasRaise : BOOLEAN]

DayTexts == {<<"1", "5">>, <<"3", "1">>, <<"2", "9">>, <<"1">>, <<"0">>,
             <<"x">>, <<>>, <<" ", "1", "5">>,
             <<"9", "9", "9", "9", "9", "9", "9", "9", "9", "9", "9">>}
MonthTexts == {<<"0", "1">>, <<"0", "2">>, <<"1", "3">>, <<"1">>, <<"x">>}
YearTexts == {<<"2", "0", "2", "4">>, <<"2", "0", "2", "3">>,
              <<"2", "0", "2", "5">>, <<"2", "4">>, <<"0">>,
              <<"1", "0", "0", "0", "0">>, <<"x">>,
              <<"2", "1", "4", "7", "4", "8", "3", "6", "4", "7">>,
              <<"2", "1", "4", "7", "4", "8", "3", "6", "4", "8">>}

\* 'D/M/Y' texts, and texts of two and of four parts
DateTexts ==
    {Join(<<"/">>, <<d, m, y>>) : d \in DayTexts, m \in MonthTexts,
                                  y \in YearTexts}
    \cup {Join(<<"/">>, <<d, y>>) : d \in DayTexts, y \in YearTexts}
    \cup {Join(<<"/">>, <<d, m, y, <<>>>>) : d \in {<<"1", "5">>},
                                            m \in MonthTexts, y \in YearTexts}
    \cup {<<>>, <<"2", "0", "2", "4", "-", "0", "1", "-", "1", "5">>}

IsoYears == {<<"2", "0", "2", "4">>, <<"2", "0", "2", "3">>,
             <<"0", "0", "0", "0">>, <<"2", "4">>, <<"x">>}
IsoMonths == {<<"0", "1">>, <<"0", "2">>, <<"1">>, <<"1", "3">>, <<"0", "0">>}
IsoDays == {<<"1", "5">>, <<"5">>, <<"3", "0">>, <<"3", "2">>, <<>>}
IsoTails ==
    {<<>>,
     <<"T", "1", "0", ":", "0", "0", ":", "0", "0", "+", "0", "7", "0", "0">>,
     <<"T", "1", "0", ":", "0", "0", ":", "0", "0", "+", "0", "7", ":", "0",
       "0">>,
     <<"T", "1", "0", ":", "0", "0", ":", "0", "0", "Z">>,
     <<"T", "1", "0", ":", "0", "0", ":", "0", "0">>,
     <<"T", "2", "5", ":", "0", "0", ":", "0", "0", "+", "0", "7", "0", "0">>,
     <<"T", "1", "0", ":", "0", "0", ":", "0", "0", "+", "9", "9", "0", "0">>,
     <<" ">>, <<"x">>}

IsoTexts ==
    {Join(<<"-">>, <<y, m, d>>) \o t : y \in IsoYears, m \in IsoMonths,
                                       d \in IsoDays, t \in IsoTails}
    \cup {<<>>, <<"1", "5", "/", "0", "1", "/", "2", "0", "2", "4">>}

UtilInputs(f) ==
    CASE f = "save_read" -> LinkLists
      [] f = "read" -> FileContents
      [] f = "content" -> ContentPages
      [] f = "date_text" -> DateTexts
      [] f = "iso_date" -> IsoTexts

\* the state of the two runs while only the helpers are exercised
RunIdle ==
    /\ driver = "none" /\ exc = "none"
    /\ method = "scroll" /\ max_links = 0 /\ feed = <<>> /\ shown = 0
    /\ height = 1 /\ links = {} /\ last_height = 0 /\ scroll_count = 0
    /\ result = <<>> /\ linksFile = NoFile
    /\ start_count = START_COUNT /\ max_articles = 0 /\ crawlLinks = <<>>
    /\ idx = 1 /\ count = 0 /\ successful = 0 /\ written = <<>>
    /\ attempted = <<>> /\ dom = NoPage

InitUtil ==
    /\ prog = "util" /\ pc = "call"
    /\ fn \in {"save_read", "read", "content", "date_text", "iso_date"}
    /\ arg \in UtilInputs(fn)
    /\ out = NoResult
    /\ RunIdle

Called(f) == prog = "util" /\ pc = "done" /\ fn = f

Return(value) ==
    /\ out' = value
    /\ pc' = "done"
    /\ UNCHANGED <<prog, driver, exc, fn, arg, linksFile>>
    /\ UNCHANGED collectVars
    /\ UNCHANGED crawlVars

\* save_links_to_file(arg, path), then read_links_from_file(path)
SaveThenRead ==
    /\ prog = "util" /\ pc = "call" /\ fn = "save_read"
    /\ LET content == save_links_to_file(arg)
       IN  Return([file |-> content, back |-> read_links_from_file(content)])

\* read_links_from_file on a file of any content
ReadLinks ==
    /\ prog = "util" /\ pc = "call" /\ fn = "read"
    /\ Return(read_links_from_file(arg))

GetContent ==
    /\ prog = "util" /\ pc = "call" /\ fn = "content"
    /\ Return(get_article_content(arg))

ParseDateText ==
    /\ prog = "util" /\ pc = "call" /\ fn = "date_text"
    /\ Return(parse_date_from_text(arg))

ParseIsoDate ==
    /\ prog = "util" /\ pc = "call" /\ fn = "iso_date"
    /\ Return(parse_iso_date(arg))

NextUtil ==
    \/ SaveThenRead
    \/ ReadLinks
    \/ GetContent
    \/ ParseDateText
    \/ ParseIsoDate

SpecUtil == InitUtil /\ [][NextUtil]_vars

(***************************************************************************)
(* Properties of the helpers, checked under SpecUtil.                      *)
(***************************************************************************)
IsBlank(t) == \A i \in DOMAIN t : t[i] \in Whitespace

\* a URL as the claim takes it: not empty, no whitespace at either end, no
\* line break inside
CleanUrl(u) ==
    /\ u # <<>>
    /\ u[1] \notin Whitespace /\ u[Len(u)] \notin Whitespace
    /\ \A i \in DOMAIN u : u[i] \notin {"\n", "\r"}

\* C8: saving a list of clean URLs and reading the file back returns the
\* same URLs in the same order, and no blank or whitespace-only line of a
\* links file is ever among the links read back.
C8_SaveReadRoundTrip ==
    /\ (Called("save_read") /\ \A i \in DOMAIN arg : CleanUrl(arg[i]))
           => out.back = arg
    /\ Called("save_read") => \A i \in DOMAIN out.back : ~IsBlank(out.back[i])
    /\ Called("read") => \A i \in DOMAIN out : ~IsBlank(out[i])

\* C8 witness: two different clean URLs were saved and read back, and a file
\* with a blank line between two links was read.
C8_Witness ==
    \/ /\ Called("save_read") /\ Len(arg) = 2 /\ arg[1] # arg[2]
       /\ \A i \in DOMAIN arg : CleanUrl(arg[i])
    \/ /\ Called("read") /\ arg = <<"a", "\n", " ", "\n">> /\ Len(out) = 1

SumLen(ts) == Len(Flatten(ts))

\* the lines the content is made of: the summary when there is a non-empty
\* one, then the non-blank paragraph texts in document order
ContentLines(page) ==
    (IF page.summary # <<>> /\ page.summary[1] # <<>> THEN page.summary
     ELSE <<>>)
        \o SelectSeq(page.paragraphs, LAMBDA t : ~IsBlank(t))

\* C9: when the paragraphs can be read, get_article_content returns the
\* non-empty summary followed by every non-blank direct paragraph, in
\* document order, separated by single newlines and by nothing else.
C9_ContentIsSummaryThenParagraphs ==
    (Called("content") /\ ~arg.parasRaise) =>
        LET ls == ContentLines(arg)
        IN  /\ ls = <<>> => out = <<>>
            /\ ls # <<>> => Len(out) = SumLen(ls) + Len(ls) - 1
            /\ (ls # <<>> /\ \A i \in DOMAIN ls : "\n" \notin Range(ls[i]))
                   => Split(out, "\n") = ls

\* C9 witness: a one-line summary, two non-empty paragraphs.
C9_Witness ==
    /\ Called("content") /\ ~arg.parasRaise
    /\ arg.summary = <<<<"s">>>>
    /\ arg.paragraphs = <<<<"p">>, <<"q", " ">>>>
    /\ out = <<"s", "\n", "p", "\n", "q", " ">>

AllDigits(s, positions) == \A i \in positions : At(s, i) \in Digits
Num2(s, i) == DigitVal(s[i]) * 10 + DigitVal(s[i + 1])
Num4(s, i) == Num2(s, i) * 100 + Num2(s, i + 2)

\* a valid date written 'DD/MM/YYYY'
StrictDMY(s) ==
    /\ Len(s) = 10 /\ s[3] = "/" /\ s[6] = "/"
    /\ AllDigits(s, {1, 2, 4, 5, 7, 8, 9, 10})
    /\ ValidYMD(Num4(s, 7), Num2(s, 4), Num2(s, 1))

\* a valid date written 'YYYY-MM-DD'
StrictYMD(s) ==
    /\ Len(s) >= 10 /\ s[5] = "-" /\ s[8] = "-"
    /\ AllDigits(s, {1, 2, 3, 4, 6, 7, 9, 10})
    /\ ValidYMD(Num4(s, 1), Num2(s, 6), Num2(s, 9))

\* a valid 'YYYY-MM-DD' or 'YYYY-MM-DDTHH:MM:SS+ZZZZ'
StrictISO(s) ==
    /\ StrictYMD(s)
    /\ \/ Len(s) = 10
       \/ /\ Len(s) = 24 /\ s[11] = "T" /\ s[14] = ":" /\ s[17] = ":"
          /\ s[20] \in {"+", "-"}
          /\ AllDigits(s, {12, 13, 15, 16, 18, 19, 21, 22, 23, 24})
          /\ Num2(s, 12) < 24 /\ Num2(s, 15) < 60 /\ Num2(s, 18) < 60
          /\ Num2(s, 21) < 24 /\ Num2(s, 23) < 60

\* a text of three '/'-separated parts that Python reads as integers which
\* form a calendar date: the widest reading of "a valid date in the format"
DenotesDMY(s) ==
    LET parts == Split(s, "/")
    IN  /\ Len(parts) = 3
        /\ \A i \in 1..3 : PyInt(parts[i]).ok /\ ~PyInt(parts[i]).big
        /\ ValidYMD(PyInt(parts[3]).val, PyInt(parts[2]).val,
                    PyInt(parts[1]).val)

\* C10: both date parsers return no result, and raise nothing, for every
\* text that is not a valid date in their format, and a result with the year
\* written in the text for a valid one.  "Valid" is read as widely as the
\* formats allow (unpadded fields), so that only a text that denotes no date
\* at all is required to give no result.
C10_DateParsersNeverRaise ==
    /\ Called("date_text") =>
           /\ StrictDMY(arg) => out.kind = "date" /\ out.year = Num4(arg, 7)
           /\ ~DenotesDMY(arg) => out = NoDate
           /\ out.kind \in {"none", "date"}
    /\ Called("iso_date") =>
           /\ StrictISO(arg) => out.kind = "date" /\ out.year = Num4(arg, 1)
           /\ ~StrictYMD(arg) /\ ~MatchYMD(arg).ok => out = NoDate
           /\ out.kind \in {"none", "date"}

\* the case C10's code leaves uncaught: a part too large for a C int
C10_Overflow == Called("date_text") /\ out = Raised("OverflowError")

(***************************************************************************)
(* Properties of the runs, checked under Spec.                             *)
(***************************************************************************)
\* the year an item's markup writes down, read off the text itself: the
\* <time> attribute when it is a valid ISO date, else the date text when it
\* is a valid DD/MM/YYYY date, else NoYear
WrittenYearOfText(t) == IF StrictDMY(t) THEN Num4(t, 7) ELSE NoYear

WrittenYear(item) ==
    IF item.time # <<>> /\ StrictISO(item.time[1]) THEN Num4(item.time[1], 1)
    ELSE IF item.date # <<>> THEN WrittenYearOfText(Strip(item.date[1]))
    ELSE NoYear

\* a collection run that has gone through its method without an exception
Collected == prog = "collect" /\ result # <<>>

\* the first four items of the page are the example's [Y+1, Y, Y, Y-1]
ShowsExample ==
    /\ Len(feed) >= 4 /\ SubSeq(feed, 1, 4) = ExamplePage
    /\ shown >= 4

\* C1: on a page that shows the items [Y+1, Y, Y, Y-1, ...], with room for
\* both links, the first iteration of either method ends the collection at
\* the Y-1 item and returns exactly the two Y links.
C1_StopsAtFirstOlderWithBothLinks ==
    [][(/\ prog = "collect" /\ pc = "loop" /\ scroll_count = 0
        /\ ShowsExample /\ max_links >= 2
        /\ exc' = "none")
       => result' = <<{UrlA, UrlB}>>]_vars

\* what the code does instead on the example page: the scroll-based method
\* has returned without any link
C1_ReturnedNothing ==
    /\ Collected /\ method = "scroll" /\ exc = "none"
    /\ feed = ExamplePage /\ shown = 4 /\ max_links = 2
    /\ result = <<{}>>

\* C2: a crawl run never saves more than max_articles files, and when it
\* stops with links of the file left over, exactly max_articles files have
\* been saved.
C2_StopsAfterMaxSaved ==
    (prog = "crawl" /\ pc \in {"exit", "done"} /\ exc = "none")
        => /\ Len(written) <= max_articles
           /\ idx <= Len(crawlLinks) => Len(written) = max_articles

\* the spec's case with numbering started at 1: 3 allowed, 5 links, the run
\* over after 2 files
C2_StoppedShort ==
    /\ prog = "crawl" /\ pc = "done" /\ exc = "none"
    /\ max_articles = 3 /\ Len(crawlLinks) = 5 /\ start_count = 1
    /\ Len(written) = 2 /\ Len(attempted) = 2

\* C3: every URL collected so far, and every URL returned, is the href of an
\* item on the page whose written year is the target year; and no item's
\* date ever ends the run with an error.
C3_OnlyTargetYearLinks ==
    prog = "collect" =>
        /\ \A u \in links \cup (IF result = <<>> THEN {} ELSE result[1]) :
             \E i \in 1..shown : /\ feed[i].href = <<u>>
                                 /\ WrittenYear(feed[i]) = TARGET_YEAR
        /\ exc \in {"none", "create_driver", "page_load", "element_lookup",
                    "file_io"}

\* a run over a page with an undatable item in front of three target-year
\* items has returned the two target-year URLs
C3_Witness ==
    /\ Collected /\ pc = "done" /\ exc = "none"
    /\ feed = <<Undated, CurA, CurA, CurB>> /\ shown = 4
    /\ result = <<{UrlA, UrlB}>>

\* C4: a run that is over holds no open browser session.
C4_SessionReleased == pc = "done" => driver # "open"

\* a run whose body raised is over, and its session has been quit
C4_Witness ==
    /\ pc = "done" /\ driver = "quit"
    /\ exc \in {"page_load", "element_lookup", "file_io"}

\* C5: no failure inside the body of a run is left standing when the run is
\* over.
C5_NoFailureLeavesTheRun ==
    pc = "done" => exc \notin {"page_load", "element_lookup", "file_io"}

\* a crawl run ended by the exception of reading the links file
C5_FileErrorPropagated == prog = "crawl" /\ pc = "done" /\ exc = "file_io"

\* the page of an attempt is one crawl_article must give up on
Unextractable(page) == page.load # "ok" \/ page.title = <<>> \/ ~page.body

C7_StopsWhenHeightStopsGrowing ==
    [][(prog = "collect" /\ pc = "loop" /\ pc' = "loop")
       => height' > height]_vars

\* the article-based loop has scrolled more often than there are heights: at
\* least once the height had not grown
C7_KeptScrolling ==
    /\ prog = "collect" /\ method = "article" /\ pc = "loop"
    /\ scroll_count > MaxHeight

\* the lines of the links file a collection run has written
SavedLines == read_links_from_file(linksFile[1])

\* C11: the links file of a collection run lists every URL of the returned
\* set, and lists none of them twice, however often the iterations have read
\* the same items again.
C11_EachUrlOnce ==
    (prog = "collect" /\ linksFile # NoFile) =>
        /\ result # <<>>
        /\ \A i, j \in 1..Len(SavedLines) :
             i # j => SavedLines[i] # SavedLines[j]
        /\ Range(SavedLines) = result[1]
        /\ Len(SavedLines) = Cardinality(result[1])

\* the article-based method has read a page that carries UrlA on two items
\* in every one of its iterations (it ended below its cap, so by the
\* ceiling), and the file holds the two URLs
C11_Witness ==
    /\ Collected /\ method = "article" /\ pc = "done" /\ exc = "none"
    /\ feed = <<Undated, CurA, CurA, CurB>> /\ shown = 4 /\ max_links = 3
    /\ result = <<{UrlA, UrlB}>>
    /\ linksFile # NoFile /\ Len(SavedLines) = 2

\* C12: neither the set being collected nor the set returned ever holds more
\* than max_links URLs.
C12_NeverMoreThanMaxLinks ==
    prog = "collect" =>
        /\ Cardinality(links) <= max_links
        /\ result # <<>> => Cardinality(result[1]) <= max_links

\* the scroll-based method, asked for no link at all, has returned one
C12_OneLinkForCapZero ==
    /\ Collected /\ method = "scroll" /\ max_links = 0
    /\ Cardinality(result[1]) = 1

\* C13: the loop of a collection method is only ever entered below the
\* ceiling, and an iteration either ends the loop or counts one more scroll:
\* no run makes more than MAX_SCROLLS iterations.
C13_AtMostMaxScrollsIterations ==
    [][(prog = "collect" /\ pc = "loop")
       => /\ scroll_count < MAX_SCROLLS
          /\ pc' = "loop" => /\ scroll_count' = scroll_count + 1
                             /\ scroll_count' < MAX_SCROLLS]_vars

\* the article-based method, asked for a link on a page that never yields
\* one, has returned: it was ended by the ceiling
C13_Witness ==
    /\ Collected /\ method = "article" /\ pc = "done" /\ exc = "none"
    /\ max_links >= 1 /\ result = <<{}>>

\* C14: the files a crawl run has saved are numbered start_count,
\* start_count + 1, ... in the order they were saved, without a gap.
C14_ConsecutiveFileNumbers ==
    prog = "crawl" =>
        \A k \in 1..Len(written) : written[k].name = start_count + k - 1

\* a save that failed has used up a number: the first file the run saved
\* carries the number after start_count
C14_NumberSkipped ==
    /\ prog = "crawl" /\ Len(written) = 1
    /\ written[1].name = start_count + 1

====
